---- MODULE Spec2Model ----
(***************************************************************************)
(* Model of the invoice / packing-list generator (invoice.app.py,          *)
(* packing_list_export.py, export_excel.py).                               *)
(*                                                                         *)
(* Numbers.  A Python float is modelled as a fixed-point integer counting  *)
(* thousandths (Scale = 1000): 0.05 CBM is 50, 10.00 dollars is 10000.     *)
(* Division truncates at that resolution.  The two IEEE special values the *)
(* code can produce (x / 0.0 = inf, 0.0 / 0.0 = nan) are the sentinels INF *)
(* and NAN; pandas reductions (sum, max) skip nan.                         *)
(*                                                                         *)
(* Cells.  A cell of the consolidated table is a record [t, v]:            *)
(*   t = "s2"    a string with two decimals (f"{x:.2f}"), v in hundredths  *)
(*   t = "s3"    a string with three decimals (f"{x:.3f}"), v in thousandths*)
(*   t = "f"     a float object or str(float), v in thousandths            *)
(*   t = "raw"   str() of a sheet value in the sheet's own dtype           *)
(*   t = "empty" the empty string                                          *)
(*   t = "repr"  str() of a float object in the placeholder mapping        *)
(* A multi-line field ("a\nb\nc") is the sequence of its lines.            *)
(* A numeric cell of the sheet may be NAN (empty) or TEXT (not a number);  *)
(* a text cell may be NoValue (empty) or NoColumn (the sheet has no such   *)
(* column).                                                                *)
(*                                                                         *)
(* Specifications.  Spec is the editing session over numeric sheets,       *)
(* SpecDirty the same session over sheets with empty and non-numeric       *)
(* cells, SpecInvoices a session that generates invoices into the output   *)
(* folder.                                                                 *)
(***************************************************************************)
EXTENDS Integers, Sequences, FiniteSets, TLC

VARIABLES uploaded_file,    \* rows of the file held by st.file_uploader, <<>> = none
          raw_df,           \* st.session_state.raw_df
          global_defaults,  \* st.session_state.global_defaults
          consolidated_df,  \* st.session_state.consolidated_df, <<>> = None
          widgets,          \* values of the edit widgets used by the last script run
          pc,               \* "idle", or "rerun" when st.rerun() is pending
          ws,               \* rows of the packing-list worksheet built by the last run
          output_folder,    \* the files of OUTPUT_FOLDER
          report,           \* what the last script run shows about its invoices
          attempts          \* the invoices the last script run tried to generate,
                            \* each with the placeholder mapping built for it

vars == <<uploaded_file, raw_df, global_defaults, consolidated_df, widgets, pc, ws,
          output_folder, report, attempts>>

----------------------------------------------------------------------------
(* Bounds *)

MaxRows == 3

\* most PDF files the output folder holds
MaxFiles == 2

----------------------------------------------------------------------------
(* Floats *)

Scale == 1000

INF == 2000000000

NAN == 0 - 1

IsFinite(x) == x # INF /\ x # NAN

\* a cell of a numeric column holding text that float() does not parse
TEXT == 0 - 2

\* a + b
Add(a, b) ==
    IF a = NAN \/ b = NAN THEN NAN
    ELSE IF a = INF \/ b = INF THEN INF
    ELSE a + b

\* a * b
Mul(a, b) ==
    IF a = NAN \/ b = NAN THEN NAN
    ELSE IF a = INF \/ b = INF THEN (IF a = 0 \/ b = 0 THEN NAN ELSE INF)
    ELSE a * (b \div Scale) + (a * (b % Scale)) \div Scale

\* a / b on numpy floats: no ZeroDivisionError, inf or nan instead
Div(a, b) ==
    IF a = NAN \/ b = NAN THEN NAN
    ELSE IF b = 0 THEN (IF a = 0 \/ a = NAN THEN NAN ELSE INF)
    ELSE IF b = INF THEN (IF a = INF THEN NAN ELSE 0)
    ELSE IF a = INF THEN INF
    ELSE (a * Scale) \div b

\* a < b on floats (False whenever nan is involved)
Less(a, b) ==
    IF a = NAN \/ b = NAN THEN FALSE
    ELSE a < b

\* DataFrame.max(axis=1) over two columns, skipna=True
RowMax(a, b) ==
    IF a = NAN THEN b
    ELSE IF b = NAN THEN a
    ELSE IF a < b THEN b ELSE a

RECURSIVE SeriesSum(_)
\* Series.sum(), skipna=True
SeriesSum(s) ==
    IF s = <<>> THEN 0
    ELSE IF Head(s) = NAN THEN SeriesSum(Tail(s))
    ELSE Add(Head(s), SeriesSum(Tail(s)))

\* f"{x:.2f}": hundredths, rounded; "inf" and "nan" print as themselves
Fmt2(x) == IF IsFinite(x) THEN (x + Scale \div 200) \div (Scale \div 100) ELSE x

\* f"{x:.3f}" / Series.round(3): thousandths
Fmt3(x) == IF IsFinite(x) THEN (x + Scale \div 2000) \div (Scale \div 1000) ELSE x

\* round(x, 2), used to state roundings the code does not perform
Round2(x) == IF IsFinite(x) THEN Fmt2(x) * (Scale \div 100) ELSE x

Str2(x) == [t |-> "s2", v |-> Fmt2(x)]

Str3(x) == [t |-> "s3", v |-> Fmt3(x)]

Flt(x) == [t |-> "f", v |-> x]

Raw(x) == [t |-> "raw", v |-> x]

EmptyCell == [t |-> "empty", v |-> 0]

\* float(cell)
ToFloat(c) ==
    IF c.t = "s2" THEN (IF IsFinite(c.v) THEN c.v * (Scale \div 100) ELSE c.v)
    ELSE IF c.t = "s3" THEN (IF IsFinite(c.v) THEN c.v * (Scale \div 1000) ELSE c.v)
    ELSE c.v

\* _safe_float(x): float(x), 0.0 when float() raises
SafeFloat(c) == IF c.t = "empty" THEN 0 ELSE ToFloat(c)

----------------------------------------------------------------------------
(* Policy constants *)

FlatThreshold == 50

FlatCharge == 10000

----------------------------------------------------------------------------
(* Input sheets *)

\* marks in the order str comparison puts them
MarkOrder == <<"ABC", "MNO", "XYZ">>

\* an empty cell of a column the sheet has (read_excel gives NaN)
NoValue == "<NaN>"

\* the cell of a column the sheet does not have
NoColumn == "<no column>"

\* str(row.get(column, "")) on a text cell
StrOf(cell) ==
    IF cell = NoColumn THEN "" ELSE IF cell = NoValue THEN "nan" ELSE cell

\* the contact number written on the row of a receipt
ContactOf(receipt) ==
    CASE receipt = "R1" -> "555-0101"
      [] receipt = "R2" -> "555-0102"
      [] receipt = "R3" -> "555-0103"
      [] receipt = "R4" -> "555-0104"
      [] OTHER -> "555-0105"

\* the tracking number written on the row of a receipt, if any
TrackingOf(receipt) ==
    CASE receipt = "R1" -> "TRK-1"
      [] receipt = "R4" -> "TRK-4"
      [] receipt = "R5" -> "TRK-5"
      [] OTHER -> NoValue

\* a row of the sheet; the sheets have the columns CONTACT NUMBER and
\* TRACKING NUMBER, and neither TERMS nor CARGO NUMBER
Row(mark, receipt, qty, meas, weight, wrate, per, parking) ==
    [MARK |-> mark, RECEIPT_NO |-> receipt, DESCRIPTION |-> receipt,
     QTY |-> qty, MEAS |-> meas, WEIGHT |-> weight,
     Weight_Rate |-> wrate, PER_CHARGES |-> per, PARKING_CHARGES |-> parking,
     CONTACT_NUMBER |-> ContactOf(receipt), TRACKING_NUMBER |-> TrackingOf(receipt),
     TERMS |-> NoColumn, CARGO_NUMBER |-> NoColumn]

RowPool ==
    { Row("ABC", "R1", 2000, 10, 20000, 100000, 50000, 15000),
      Row("ABC", "R2", 3000, 20,  5000, 100000, 50000, 15000),
      Row("XYZ", "R3", 1000,  1,  1000, 100000, 50000, 0),
      Row("MNO", "R4", 1000,  0,  1005,   3000,  1000, 0),
      Row("XYZ", "R5", 4000, 50,     0,      0, 1000000, 15000) }

\* the files the operator may upload: up to MaxRows distinct rows, in any order
Sheets ==
    { s \in UNION { [1..n -> RowPool] : n \in 1..MaxRows } :
        \A i, j \in DOMAIN s : s[i] = s[j] => i = j }

\* rows with empty or non-numeric cells in the quantity, volume and weight columns
DirtyPool ==
    { Row("ABC", "R1", 2000, 10, 20000, 100000, 50000, 15000),
      Row("ABC", "R2", NAN,  20, NAN,   100000, 50000, 15000),
      Row("XYZ", "R3", TEXT,  1, 1000,  100000, 50000, 0),
      Row("MNO", "R4", 1000, NAN, 1005,   3000,  1000, 0) }

DirtySheets ==
    { s \in UNION { [1..n -> DirtyPool] : n \in 1..MaxRows } :
        \A i, j \in DOMAIN s : s[i] = s[j] => i = j }

\* one row per customer, with and without a tracking number
InvoicePool ==
    { Row("ABC", "R1", 2000, 10, 20000, 100000, 50000, 15000),
      Row("XYZ", "R3", 1000,  1,  1000, 100000, 50000, 0) }

InvoiceSheets ==
    { s \in UNION { [1..n -> InvoicePool] : n \in 1..MaxRows } :
        \A i, j \in DOMAIN s : s[i] = s[j] => i = j }

\* values the operator may enter in the number inputs (per charge, parking,
\* weight rate); the weight-rate inputs have min_value 0.1
RateInputs ==
    { [per |-> 0,     parking |-> 0,     wr |-> 1000],
      [per |-> 50000, parking |-> 15000, wr |-> 100000],
      [per |-> 50000, parking |-> 0,     wr |-> 1000] }

----------------------------------------------------------------------------
(* Grouping *)

MarksOf(df) == { df[i].MARK : i \in DOMAIN df }

\* key order of DataFrame.groupby("MARK") (sort=True): sorted keys
SortedMarks(df) == SelectSeq(MarkOrder, LAMBDA m : m \in MarksOf(df))

RECURSIVE FirstSeen(_, _)
\* key order of groupby(sort=False) / Series.unique(): first appearance
FirstSeen(df, seen) ==
    IF df = <<>> THEN <<>>
    ELSE IF Head(df).MARK \in seen THEN FirstSeen(Tail(df), seen)
    ELSE <<Head(df).MARK>> \o FirstSeen(Tail(df), seen \cup {Head(df).MARK})

UniqueMarks(df) == FirstSeen(df, {})

\* df[df["MARK"] == customer]
GroupOf(df, customer) == SelectSeq(df, LAMBDA r : r.MARK = customer)

\* variant: the value of the first row only, not the joined lines
Column_FirstRow(group, f) == <<group[1][f]>>

\* group[f] as the sequence of its values
Column(group, f) == [i \in DOMAIN group |-> group[i][f]]

----------------------------------------------------------------------------
(* consolidate_data *)

NoDefaults == [PER_CHARGES |-> 0, WEIGHT_RATE |-> 0, PARKING_CHARGES |-> 0, applied |-> FALSE]

\* variant: the charges rounded to two decimals before they are stored
Charges_Rounded(actual_cbm, per_charge) ==
    LET total_cbm == SeriesSum(actual_cbm)
    IN IF Less(total_cbm, FlatThreshold)
       THEN [calculated_charges |-> FlatCharge, rate_applied |-> FlatCharge]
       ELSE [calculated_charges |-> Round2(Mul(total_cbm, per_charge)),
             rate_applied |-> per_charge]

\* the charge policy shared by consolidate_data and the table editor
Charges(actual_cbm, per_charge) ==
    LET total_cbm == SeriesSum(actual_cbm)
    IN IF Less(total_cbm, FlatThreshold)
       THEN [calculated_charges |-> FlatCharge, rate_applied |-> FlatCharge]
       ELSE [calculated_charges |->
                SeriesSum([i \in DOMAIN actual_cbm |-> Mul(actual_cbm[i], per_charge)]),
             rate_applied |-> per_charge]

\* variant: conditional branching instead of the numeric maximum
ActualCbm_Branching(group, weight_rate) ==
    [i \in DOMAIN group |->
        IF group[i].MEAS > 0 THEN group[i].MEAS ELSE Div(group[i].WEIGHT, weight_rate)]

\* Actual CBM of the rows of one customer under one weight rate
ActualCbm(group, weight_rate) ==
    [i \in DOMAIN group |-> RowMax(group[i].MEAS, Div(group[i].WEIGHT, weight_rate))]

ConsolidateGroup(customer, group, defaults) ==
    LET first_row == group[1]
        per_charge == IF defaults.applied THEN defaults.PER_CHARGES ELSE first_row.PER_CHARGES
        parking_charges == IF defaults.applied THEN defaults.PARKING_CHARGES
                           ELSE first_row.PARKING_CHARGES
        weight_rate == IF defaults.applied THEN defaults.WEIGHT_RATE ELSE first_row.Weight_Rate
        actual == ActualCbm(group, weight_rate)
        total_cbm == SeriesSum(actual)
        total_qty == SeriesSum(Column(group, "QTY"))
        ch == Charges(actual, per_charge)
        total_charges == Add(ch.calculated_charges, parking_charges)
    IN [RECEIPT_NO |-> Column(group, "RECEIPT_NO"),
        DESCRIPTION |-> Column(group, "DESCRIPTION"),
        QTY |-> [i \in DOMAIN group |-> Raw(group[i].QTY)],
        CBM |-> [i \in DOMAIN group |-> Flt(group[i].CBM)],
        WEIGHT_KG |-> [i \in DOMAIN group |-> Raw(group[i].WEIGHT)],
        PARKING_CHARGES |-> Str2(parking_charges),
        PER_CHARGES |-> Str2(ch.rate_applied),
        RATE |-> Str2(ch.rate_applied),
        Weight_Rate |-> Str2(weight_rate),
        TOTAL_CHARGES |-> Str2(total_charges),
        MARK |-> customer,
        CONTACT_NUMBER |-> StrOf(first_row.CONTACT_NUMBER),
        CARGO_NUMBER |-> StrOf(first_row.CARGO_NUMBER),
        TRACKING_NUMBER |-> StrOf(first_row.TRACKING_NUMBER),
        TERMS |-> StrOf(first_row.TERMS),
        TOTAL_QTY |-> Str2(total_qty),
        TOTAL_CBM |-> Str2(total_cbm),
        TOTAL_CHARGES_SUM |-> Flt(total_charges),
        FLAT_RATE_APPLIED |-> IF Less(total_cbm, FlatThreshold) THEN "Yes" ELSE "No",
        CALCULATED_CHARGES |-> Flt(ch.calculated_charges),
        NUM_TOTAL_CBM |-> Flt(total_cbm)]

consolidate_data(df, defaults) ==
    LET keys == SortedMarks(df)
    IN [k \in DOMAIN keys |-> ConsolidateGroup(keys[k], GroupOf(df, keys[k]), defaults)]

----------------------------------------------------------------------------
(* main: the part of a script run from the upload to the consolidation *)

\* df after the column defaults, the zero weight-rate replacement and the
\* "Weight CBM" / "CBM" columns
MainDf(sheet) ==
    [i \in DOMAIN sheet |->
        LET wr == IF sheet[i].Weight_Rate = 0 THEN Scale ELSE sheet[i].Weight_Rate
        IN [MARK |-> sheet[i].MARK, RECEIPT_NO |-> sheet[i].RECEIPT_NO,
            DESCRIPTION |-> sheet[i].DESCRIPTION, QTY |-> sheet[i].QTY,
            MEAS |-> sheet[i].MEAS, WEIGHT |-> sheet[i].WEIGHT,
            Weight_Rate |-> wr, PER_CHARGES |-> sheet[i].PER_CHARGES,
            PARKING_CHARGES |-> sheet[i].PARKING_CHARGES,
            CONTACT_NUMBER |-> sheet[i].CONTACT_NUMBER,
            CARGO_NUMBER |-> sheet[i].CARGO_NUMBER,
            TRACKING_NUMBER |-> IF sheet[i].TRACKING_NUMBER = NoColumn THEN ""
                                ELSE sheet[i].TRACKING_NUMBER,
            TERMS |-> IF sheet[i].TERMS = NoColumn THEN "" ELSE sheet[i].TERMS,
            CBM |-> RowMax(sheet[i].MEAS, Div(sheet[i].WEIGHT, wr))]]

MainConsolidate(sheet, defaults) == consolidate_data(MainDf(sheet), defaults)

\* the arithmetic on the weight column and the astype(float) conversions raise
\* on text that is not a number; nothing catches the exception
Raises(sheet) ==
    \E i \in DOMAIN sheet :
        sheet[i].QTY = TEXT \/ sheet[i].MEAS = TEXT \/ sheet[i].WEIGHT = TEXT

\* the table in the session after the run has passed the consolidation: the
\* one it held before when the run stopped on an exception
RunTable(sheet, defaults, held) ==
    IF Raises(sheet) THEN held ELSE MainConsolidate(sheet, defaults)

NoWidgets == [op |-> "none", customer |-> "", per |-> 0, parking |-> 0, wr |-> 0]

\* OUTPUT_FOLDER right after os.makedirs: no PDF, no notification log (a log
\* that exists has an entry), no archive
EmptyFolder == [pdfs |-> {}, log |-> <<>>, zip |-> [exists |-> FALSE, members |-> {}]]

\* a run that generates no invoice shows nothing about invoices
NoReport == [status |-> "", messages |-> <<>>]

NoAttempts == [op |-> "none", excluded |-> {}, list |-> <<>>]

Init ==
    /\ uploaded_file = <<>>
    /\ raw_df = <<>>
    /\ global_defaults = NoDefaults
    /\ consolidated_df = <<>>
    /\ widgets = NoWidgets
    /\ pc = "idle"
    /\ ws = <<>>
    /\ output_folder = EmptyFolder
    /\ report = NoReport
    /\ attempts = NoAttempts

\* the operator picks a file: the script runs with it
UploadFrom(sheets) ==
    /\ pc = "idle"
    /\ \E sheet \in sheets :
        /\ uploaded_file' = sheet
        /\ raw_df' = sheet
        /\ consolidated_df' = RunTable(sheet, global_defaults, consolidated_df)
    /\ widgets' = NoWidgets
    /\ ws' = <<>>
    /\ report' = NoReport
    /\ attempts' = NoAttempts
    /\ UNCHANGED output_folder
    /\ UNCHANGED <<global_defaults, pc>>

Upload == UploadFrom(Sheets)

\* a file with empty or non-numeric cells
UploadDirty == UploadFrom(DirtySheets)

\* a file with one row per customer
UploadInvoices == UploadFrom(InvoiceSheets)

\* variant: the run consolidates only when the session holds no table
Rerun_KeepTable ==
    /\ pc = "rerun"
    /\ pc' = "idle"
    /\ IF uploaded_file # <<>> /\ consolidated_df = <<>>
       THEN /\ raw_df' = uploaded_file
            /\ consolidated_df' = RunTable(uploaded_file, global_defaults, consolidated_df)
       ELSE UNCHANGED <<raw_df, consolidated_df>>
    /\ widgets' = NoWidgets
    /\ ws' = <<>>
    /\ report' = NoReport
    /\ attempts' = NoAttempts
    /\ UNCHANGED output_folder
    /\ UNCHANGED <<uploaded_file, global_defaults>>

\* the script run that st.rerun() asked for
Rerun ==
    /\ pc = "rerun"
    /\ pc' = "idle"
    /\ IF uploaded_file # <<>>
       THEN /\ raw_df' = uploaded_file
            /\ consolidated_df' = RunTable(uploaded_file, global_defaults, consolidated_df)
       ELSE UNCHANGED <<raw_df, consolidated_df>>
    /\ widgets' = NoWidgets
    /\ ws' = <<>>
    /\ report' = NoReport
    /\ attempts' = NoAttempts
    /\ UNCHANGED output_folder
    /\ UNCHANGED <<uploaded_file, global_defaults>>

\* "Apply Global Settings": the run stores the defaults, then consolidates
ApplyGlobalSettings ==
    /\ pc = "idle"
    /\ uploaded_file # <<>>
    /\ \E in \in RateInputs :
        /\ global_defaults' = [PER_CHARGES |-> in.per, WEIGHT_RATE |-> in.wr,
                               PARKING_CHARGES |-> in.parking, applied |-> TRUE]
        /\ consolidated_df' = RunTable(uploaded_file, global_defaults', consolidated_df)
    /\ raw_df' = uploaded_file
    /\ widgets' = NoWidgets
    /\ ws' = <<>>
    /\ report' = NoReport
    /\ attempts' = NoAttempts
    /\ UNCHANGED output_folder
    /\ UNCHANGED <<uploaded_file, pc>>

\* "Clear All Data"
ClearAllData ==
    /\ pc = "idle"
    /\ consolidated_df' = <<>>
    /\ global_defaults' = NoDefaults
    /\ widgets' = NoWidgets
    /\ pc' = "rerun"
    /\ ws' = <<>>
    /\ output_folder' = EmptyFolder
    /\ report' = NoReport
    /\ attempts' = NoAttempts
    /\ UNCHANGED <<uploaded_file, raw_df>>

----------------------------------------------------------------------------
(* display_customer_markdowns: "Save Changes for <customer>" *)

\* the text inputs (terms, tracking number, contact number) are left as the
\* form shows them: they write back the values the record already has
FormSaveRecord(rec, raw, new_per_charges, new_parking, new_weight_rate) ==
    LET customer_rows == GroupOf(raw, rec.MARK)
        actual_cbm == ActualCbm(customer_rows, new_weight_rate)
        current_cbm == SeriesSum(actual_cbm)
        calculated_charges == IF Less(current_cbm, FlatThreshold) THEN FlatCharge
                              ELSE Mul(current_cbm, new_per_charges)
        total_charges == Add(calculated_charges, new_parking)
    IN [rec EXCEPT
          !.PER_CHARGES = Flt(new_per_charges),
          !.PARKING_CHARGES = Flt(new_parking),
          !.Weight_Rate = Flt(new_weight_rate),
          !.NUM_TOTAL_CBM = Flt(current_cbm),
          !.TOTAL_CBM = Str2(current_cbm),
          !.TOTAL_CHARGES_SUM = Flt(total_charges),
          !.TOTAL_CHARGES = Str2(total_charges),
          !.FLAT_RATE_APPLIED = IF Less(current_cbm, FlatThreshold) THEN "Yes" ELSE "No",
          !.RATE = IF Less(current_cbm, FlatThreshold) THEN Str2(FlatCharge)
                   ELSE Str2(new_per_charges)]

FormSave(df, raw, customer, new_per_charges, new_parking, new_weight_rate) ==
    [k \in DOMAIN df |->
        IF df[k].MARK = customer
        THEN FormSaveRecord(df[k], raw, new_per_charges, new_parking, new_weight_rate)
        ELSE df[k]]

\* variant: the form writes the edited rates into the raw rows of the customer
SaveCustomerForm_InPlace ==
    /\ pc = "idle"
    /\ uploaded_file # <<>>
    /\ ~Raises(uploaded_file)
    /\ LET df == MainConsolidate(uploaded_file, global_defaults)
       IN \E k \in DOMAIN df, in \in RateInputs :
            /\ consolidated_df' =
                   FormSave(df, uploaded_file, df[k].MARK, in.per, in.parking, in.wr)
            /\ widgets' = [op |-> "form", customer |-> df[k].MARK,
                           per |-> in.per, parking |-> in.parking, wr |-> in.wr]
            /\ raw_df' = [i \in DOMAIN uploaded_file |->
                            IF uploaded_file[i].MARK = df[k].MARK
                            THEN [uploaded_file[i] EXCEPT !.PER_CHARGES = in.per,
                                                         !.PARKING_CHARGES = in.parking,
                                                         !.Weight_Rate = in.wr]
                            ELSE uploaded_file[i]]
    /\ pc' = "rerun"
    /\ ws' = <<>>
    /\ report' = NoReport
    /\ attempts' = NoAttempts
    /\ UNCHANGED output_folder
    /\ UNCHANGED <<uploaded_file, global_defaults>>

\* the run triggered by the save button of one customer's form
SaveCustomerForm ==
    /\ pc = "idle"
    /\ uploaded_file # <<>>
    /\ ~Raises(uploaded_file)
    /\ LET df == MainConsolidate(uploaded_file, global_defaults)
       IN \E k \in DOMAIN df, in \in RateInputs :
            /\ consolidated_df' =
                   FormSave(df, uploaded_file, df[k].MARK, in.per, in.parking, in.wr)
            /\ widgets' = [op |-> "form", customer |-> df[k].MARK,
                           per |-> in.per, parking |-> in.parking, wr |-> in.wr]
    /\ raw_df' = uploaded_file
    /\ pc' = "rerun"
    /\ ws' = <<>>
    /\ report' = NoReport
    /\ attempts' = NoAttempts
    /\ UNCHANGED output_folder
    /\ UNCHANGED <<uploaded_file, global_defaults>>

----------------------------------------------------------------------------
(* display_customer_editor: "Save Table Changes" *)

\* Series.round(3)
Round3(x) == ToFloat(Str3(x))

TableSaveRecord(row, raw) ==
    LET per_charges == ToFloat(row.PER_CHARGES)
        parking == ToFloat(row.PARKING_CHARGES)
        weight_rate == ToFloat(row.Weight_Rate)
        customer_rows == GroupOf(raw, row.MARK)
        actual_cbm == ActualCbm(customer_rows, weight_rate)
        total_cbm == SeriesSum(actual_cbm)
        total_qty == SeriesSum(Column(customer_rows, "QTY"))
        ch == Charges(actual_cbm, per_charges)
        total_charges == Add(ch.calculated_charges, parking)
    IN [RECEIPT_NO |-> Column(customer_rows, "RECEIPT_NO"),
        DESCRIPTION |-> Column(customer_rows, "DESCRIPTION"),
        QTY |-> [i \in DOMAIN customer_rows |-> Flt(customer_rows[i].QTY)],
        CBM |-> [i \in DOMAIN customer_rows |-> Flt(Round3(actual_cbm[i]))],
        WEIGHT_KG |-> [i \in DOMAIN customer_rows |-> Flt(customer_rows[i].WEIGHT)],
        PARKING_CHARGES |-> Str2(parking),
        PER_CHARGES |-> Str2(ch.rate_applied),
        RATE |-> Str2(ch.rate_applied),
        Weight_Rate |-> Str2(weight_rate),
        TOTAL_CHARGES |-> Str2(total_charges),
        MARK |-> row.MARK,
        CONTACT_NUMBER |-> StrOf(row.CONTACT_NUMBER),
        CARGO_NUMBER |-> StrOf(row.CARGO_NUMBER),
        TRACKING_NUMBER |-> StrOf(row.TRACKING_NUMBER),
        TERMS |-> StrOf(row.TERMS),
        TOTAL_QTY |-> Str2(total_qty),
        TOTAL_CBM |-> Str2(total_cbm),
        TOTAL_CHARGES_SUM |-> Flt(total_charges),
        FLAT_RATE_APPLIED |-> IF Less(total_cbm, FlatThreshold) THEN "Yes" ELSE "No",
        CALCULATED_CHARGES |-> Flt(ch.calculated_charges),
        NUM_TOTAL_CBM |-> Flt(total_cbm)]

TableSave(edited_df, raw) ==
    [k \in DOMAIN edited_df |-> TableSaveRecord(edited_df[k], raw)]

\* texts the operator types into an editable cell
PerCells == { [t |-> "s2", v |-> 0], [t |-> "s2", v |-> 5000] }

ParkingCells == { [t |-> "s2", v |-> 1500] }

WeightRateCells == { [t |-> "s2", v |-> 0], [t |-> "s2", v |-> 100] }

\* the run triggered by the save button of the table editor; the operator
\* has edited the rate cells of one row of the data editor
SaveTableChanges ==
    /\ pc = "idle"
    /\ uploaded_file # <<>>
    /\ ~Raises(uploaded_file)
    /\ LET df == MainConsolidate(uploaded_file, global_defaults)
       IN \E k \in DOMAIN df :
          \E per \in PerCells \cup {df[k].PER_CHARGES},
             parking \in ParkingCells \cup {df[k].PARKING_CHARGES},
             wr \in WeightRateCells \cup {df[k].Weight_Rate} :
            LET edited_df == [df EXCEPT ![k].PER_CHARGES = per,
                                        ![k].PARKING_CHARGES = parking,
                                        ![k].Weight_Rate = wr]
            IN /\ consolidated_df' = TableSave(edited_df, uploaded_file)
               /\ widgets' = [op |-> "table", customer |-> df[k].MARK,
                              per |-> ToFloat(per), parking |-> ToFloat(parking),
                              wr |-> ToFloat(wr)]
    /\ raw_df' = uploaded_file
    /\ pc' = "rerun"
    /\ ws' = <<>>
    /\ report' = NoReport
    /\ attempts' = NoAttempts
    /\ UNCHANGED output_folder
    /\ UNCHANGED <<uploaded_file, global_defaults>>

----------------------------------------------------------------------------
(* export_custom_packing_list *)

NUMERIC_TOTAL_COLS == {"QTY", "MEAS_CBM", "WEIGHT_KG", "CBM", "TOTAL_CHARGES"}

\* line i of a split multi-line field, "" past its end
LineOr(lines, i) == IF i \in DOMAIN lines THEN lines[i] ELSE EmptyCell

TextOr(lines, i) == IF i \in DOMAIN lines THEN lines[i] ELSE ""

\* variant: the customer-level columns repeated on every item row
ItemRowsOf_Repeated(customer, g) ==
    LET num_items == Len(g.RECEIPT_NO)
    IN [i \in 1..num_items |->
          [kind |-> "item",
           RECEIPT_NO |-> TextOr(g.RECEIPT_NO, i),
           MARK |-> IF i = 1 THEN customer ELSE "",
           DESCRIPTION |-> TextOr(g.DESCRIPTION, i),
           QTY |-> LineOr(g.QTY, i),
           MEAS_CBM |-> LineOr(g.CBM, i),
           WEIGHT_KG |-> LineOr(g.WEIGHT_KG, i),
           CBM |-> IF Len(g.CBM) > 1 THEN g.CBM[i] ELSE g.CBM[1],
           PER_CHARGES |-> g.PER_CHARGES,
           TOTAL_CHARGES |-> IF i = 1 THEN g.TOTAL_CHARGES ELSE EmptyCell,
           CONTACT_NUMBER |-> g.CONTACT_NUMBER]]

\* the item rows of one record of the table
ItemRowsOf(customer, g) ==
    LET num_items == Len(g.RECEIPT_NO)
    IN [i \in 1..num_items |->
          [kind |-> "item",
           RECEIPT_NO |-> TextOr(g.RECEIPT_NO, i),
           MARK |-> IF i = 1 THEN customer ELSE "",
           DESCRIPTION |-> TextOr(g.DESCRIPTION, i),
           QTY |-> LineOr(g.QTY, i),
           MEAS_CBM |-> LineOr(g.CBM, i),
           WEIGHT_KG |-> LineOr(g.WEIGHT_KG, i),
           CBM |-> IF Len(g.CBM) > 1 THEN g.CBM[i] ELSE g.CBM[1],
           PER_CHARGES |-> IF i = 1 THEN g.PER_CHARGES ELSE EmptyCell,
           TOTAL_CHARGES |-> IF i = 1 THEN g.TOTAL_CHARGES ELSE EmptyCell,
           CONTACT_NUMBER |-> IF i = 1 THEN g.CONTACT_NUMBER ELSE ""]]

RECURSIVE ItemRows(_, _)
\* the item rows of all records of one group
ItemRows(customer, group) ==
    IF group = <<>> THEN <<>>
    ELSE ItemRowsOf(customer, Head(group)) \o ItemRows(customer, Tail(group))

RECURSIVE Accumulate(_, _, _)
\* totals[col] += _safe_float(item[col]) for every item, in order
Accumulate(totals, items, col) ==
    IF items = <<>> THEN totals
    ELSE Accumulate(Add(totals, SafeFloat(Head(items)[col])), Tail(items), col)

TotalsRow(kind, label, totals) ==
    [kind |-> kind, RECEIPT_NO |-> label, MARK |-> "", DESCRIPTION |-> "",
     QTY |-> Str2(totals["QTY"]),
     MEAS_CBM |-> Str3(totals["MEAS_CBM"]),
     WEIGHT_KG |-> Str2(totals["WEIGHT_KG"]),
     CBM |-> Str3(totals["CBM"]),
     PER_CHARGES |-> EmptyCell,
     TOTAL_CHARGES |-> Str2(totals["TOTAL_CHARGES"]),
     CONTACT_NUMBER |-> ""]

\* the subtotal row of a group, only when it has more than one item row
SubtotalRows(customer, item_rows) ==
    IF Len(item_rows) > 1
    THEN <<TotalsRow("subtotal", customer,
                     [c \in NUMERIC_TOTAL_COLS |-> Accumulate(0, item_rows, c)])>>
    ELSE <<>>

RECURSIVE ExportGroups_DoubleCount(_, _, _)
\* variant: the subtotal row is added to the grand totals on top of the items
ExportGroups_DoubleCount(keys, df, grand_totals) ==
    IF keys = <<>> THEN [rows |-> <<>>, grand_totals |-> grand_totals]
    ELSE LET customer == Head(keys)
             item_rows == ItemRows(customer, GroupOf(df, customer))
             sub_rows == SubtotalRows(customer, item_rows)
             totals == [c \in NUMERIC_TOTAL_COLS |->
                           Accumulate(grand_totals[c], item_rows \o sub_rows, c)]
             rest == ExportGroups_DoubleCount(Tail(keys), df, totals)
         IN [rows |-> item_rows \o sub_rows \o rest.rows,
             grand_totals |-> rest.grand_totals]

RECURSIVE ExportGroups(_, _, _)
\* the loop over the groups: the rows written and the running grand totals
ExportGroups(keys, df, grand_totals) ==
    IF keys = <<>> THEN [rows |-> <<>>, grand_totals |-> grand_totals]
    ELSE LET customer == Head(keys)
             item_rows == ItemRows(customer, GroupOf(df, customer))
             totals == [c \in NUMERIC_TOTAL_COLS |->
                           Accumulate(grand_totals[c], item_rows, c)]
             rest == ExportGroups(Tail(keys), df, totals)
         IN [rows |-> item_rows \o SubtotalRows(customer, item_rows) \o rest.rows,
             grand_totals |-> rest.grand_totals]

export_custom_packing_list(df) ==
    LET out == ExportGroups(UniqueMarks(df), df, [c \in NUMERIC_TOTAL_COLS |-> 0])
    IN out.rows \o <<TotalsRow("grand", "GRAND TOTAL", out.grand_totals)>>

\* the packing list is built from the table the session holds
ExportPackingList ==
    /\ consolidated_df # <<>>
    /\ ws' = export_custom_packing_list(consolidated_df)
    /\ UNCHANGED <<uploaded_file, raw_df, global_defaults, consolidated_df, widgets, pc,
                   output_folder, report, attempts>>

----------------------------------------------------------------------------
(* generate_pdf_from_template, update_notification_sheet *)

\* str(v) of a value of the record: a float prints as its repr, a string is itself
StrCell(c) == IF c.t = "f" THEN [t |-> "repr", v |-> c.v] ELSE c

\* str(v).replace('.', '', 1).isdigit(): digits with at most one point; false
\* for "inf", "nan" and a sign
IsDigits(c) == c.t # "empty" /\ IsFinite(c.v) /\ c.v >= 0

\* a value of one of the financial_fields
Financial(c) == IF IsDigits(c) THEN Str2(ToFloat(c)) ELSE StrCell(c)

\* formatted_data: the placeholder mapping of a record
FormattedData(row_data, invoice_number, current_date) ==
    [RECEIPT_NO |-> row_data.RECEIPT_NO,
     QTY |-> row_data.QTY,
     DESCRIPTION |-> row_data.DESCRIPTION,
     CBM |-> row_data.CBM,
     WEIGHT_KG |-> row_data.WEIGHT_KG,
     PARKING_CHARGES |-> Financial(row_data.PARKING_CHARGES),
     PER_CHARGES |-> Financial(row_data.PER_CHARGES),
     RATE |-> Financial(row_data.RATE),
     Weight_Rate |-> StrCell(row_data.Weight_Rate),
     TOTAL_CHARGES |-> Financial(row_data.TOTAL_CHARGES),
     MARK |-> row_data.MARK,
     CONTACT_NUMBER |-> row_data.CONTACT_NUMBER,
     CARGO_NUMBER |-> row_data.CARGO_NUMBER,
     TOTAL_CBM |-> StrCell(row_data.TOTAL_CBM),
     TOTAL_CHARGES_SUM |-> Financial(row_data.TOTAL_CHARGES_SUM),
     FLAT_RATE_APPLIED |-> row_data.FLAT_RATE_APPLIED,
     CALCULATED_CHARGES |-> Financial(row_data.CALCULATED_CHARGES),
     NUM_TOTAL_CBM |-> StrCell(row_data.NUM_TOTAL_CBM),
     DATE |-> current_date,
     INVOICE_NUMBER |-> invoice_number,
     TRACKING_NUMBER |-> row_data.TRACKING_NUMBER,
     TERMS |-> row_data.TERMS,
     TOTAL_QTY |-> row_data.TOTAL_QTY]

\* what can happen to one invoice: the PDF is written and valid; the conversion
\* raises; the conversion leaves a file that is not a PDF
Outcomes == {"ok", "conversion_error", "invalid_pdf"}

\* the dates datetime.now() gives
Dates == {"2026-11-03"}

\* the "Starting Invoice Number" input, left at its default
StartNumbers == {1}

\* values of the "Invoice Number" input of the single invoice
InvoiceNumbers == {1, 2}

None == [number |-> 0, customer |-> ""]

\* the folder after a file is written under a name: a file of that name is replaced
WritePdf(pdfs, file) ==
    { f \in pdfs : ~(f.number = file.number /\ f.customer = file.customer) } \cup {file}

\* the path returned (None on failure), the PDF files of the folder, the
\* placeholder mapping put into the template and the errors shown; the marks of the sheets have no character that
\* sanitize_filename replaces
generate_pdf_from_template(row_data, invoice_number, current_date, outcome, pdfs) ==
    LET formatted_data == FormattedData(row_data, invoice_number, current_date)
        pdf_name == [number |-> invoice_number, customer |-> formatted_data.MARK]
        file == [number |-> invoice_number, customer |-> formatted_data.MARK,
                 valid |-> outcome = "ok"]
    IN CASE outcome = "conversion_error" ->
              [pdf_path |-> None, pdfs |-> pdfs, formatted_data |-> formatted_data,
               messages |-> <<[kind |-> "error", text |-> "PDF conversion failed",
                               customer |-> ""]>>]
         [] outcome = "invalid_pdf" ->
              [pdf_path |-> None, pdfs |-> WritePdf(pdfs, file),
               formatted_data |-> formatted_data, messages |-> <<>>]
         [] OTHER ->
              [pdf_path |-> pdf_name, pdfs |-> WritePdf(pdfs, file),
               formatted_data |-> formatted_data, messages |-> <<>>]

\* the log with the new entry after the entries it has (created when absent);
\* reading the existing log succeeds
update_notification_sheet(log, pdf_name, customer, invoice_number, contact, total) ==
    Append(log, [Customer |-> customer, Invoice |-> invoice_number, Contact |-> contact,
                 Amount |-> total, File |-> pdf_name])

\* consolidated_df[~consolidated_df["MARK"].isin(excluded_customers)]
IncludedDf(df, excluded_customers) == SelectSeq(df, LAMBDA r : r.MARK \notin excluded_customers)

RECURSIVE GenerateLoop(_, _, _, _, _, _)
\* the loop of "Generate All Invoices" from the i-th included record on
GenerateLoop(included_df, i, start_num, current_date, outcomes, st) ==
    IF i > Len(included_df) THEN st
    ELSE LET row == included_df[i]
             number == start_num + (i - 1)
             g == generate_pdf_from_template(row, number, current_date, outcomes[i], st.pdfs)
         IN GenerateLoop(included_df, i + 1, start_num, current_date, outcomes,
               [pdfs |-> g.pdfs,
                log |-> IF g.pdf_path # None
                        THEN update_notification_sheet(st.log, g.pdf_path, row.MARK, number,
                                                       row.CONTACT_NUMBER, row.TOTAL_CHARGES_SUM)
                        ELSE st.log,
                status |-> row.MARK,
                messages |-> st.messages \o g.messages,
                list |-> Append(st.list, [customer |-> row.MARK, number |-> number,
                                          outcome |-> outcomes[i],
                                          formatted_data |-> g.formatted_data])])

\* the run of the "Generate All Invoices" button
GenerateAllInvoices ==
    /\ pc = "idle"
    /\ uploaded_file # <<>>
    /\ ~Raises(uploaded_file)
    /\ LET df == MainConsolidate(uploaded_file, global_defaults)
       IN \E start_num \in StartNumbers, current_date \in Dates,
             excluded_customers \in { x \in SUBSET { df[k].MARK : k \in DOMAIN df } :
                                         Cardinality(x) <= 1 } :
            LET included_df == IncludedDf(df, excluded_customers)
            IN \E outcomes \in [DOMAIN included_df -> Outcomes] :
                 LET st == GenerateLoop(included_df, 1, start_num, current_date, outcomes,
                              [pdfs |-> {}, log |-> <<>>, status |-> "",
                               messages |-> <<>>, list |-> <<>>])
                 IN /\ Cardinality(st.pdfs) <= MaxFiles
                    /\ consolidated_df' = df
                    /\ output_folder' =
                         [pdfs |-> st.pdfs, log |-> st.log,
                          zip |-> [exists |-> TRUE,
                                   members |-> { [number |-> f.number, customer |-> f.customer] :
                                                    f \in st.pdfs }]]
                    /\ report' =
                         [status |-> st.status,
                          messages |-> Append(st.messages,
                              [kind |-> "success",
                               text |-> "All invoices generated successfully!",
                               customer |-> ""])]
                    /\ attempts' = [op |-> "all", excluded |-> excluded_customers,
                                    list |-> st.list]
    /\ raw_df' = uploaded_file
    /\ widgets' = NoWidgets
    /\ ws' = <<>>
    /\ UNCHANGED <<uploaded_file, global_defaults, pc>>

\* the run of the "Generate Selected Invoice" button
GenerateSelectedInvoice ==
    /\ pc = "idle"
    /\ uploaded_file # <<>>
    /\ ~Raises(uploaded_file)
    /\ LET df == MainConsolidate(uploaded_file, global_defaults)
       IN \E k \in DOMAIN df, single_num \in InvoiceNumbers, current_date \in Dates,
             outcome \in Outcomes :
            LET row == df[k]
                g == generate_pdf_from_template(row, single_num, current_date, outcome,
                                                output_folder.pdfs)
            IN /\ Cardinality(g.pdfs) <= MaxFiles
               /\ consolidated_df' = df
               /\ output_folder' = [output_folder EXCEPT !.pdfs = g.pdfs]
               /\ report' =
                    [status |-> "",
                     messages |-> IF g.pdf_path # None
                                  THEN g.messages \o
                                       <<[kind |-> "success", text |-> "Invoice generated",
                                          customer |-> row.MARK]>>
                                  ELSE g.messages]
               /\ attempts' = [op |-> "single", excluded |-> {},
                               list |-> <<[customer |-> row.MARK, number |-> single_num,
                                           outcome |-> outcome,
                                           formatted_data |-> g.formatted_data]>>]
    /\ raw_df' = uploaded_file
    /\ widgets' = NoWidgets
    /\ ws' = <<>>
    /\ UNCHANGED <<uploaded_file, global_defaults, pc>>

Next ==
    \/ Upload
    \/ Rerun
    \/ ApplyGlobalSettings
    \/ ClearAllData
    \/ SaveCustomerForm
    \/ SaveTableChanges
    \/ ExportPackingList

Spec == Init /\ [][Next]_vars

\* the same session, fed with sheets that have empty and non-numeric cells
NextDirty ==
    \/ UploadDirty
    \/ Rerun
    \/ ApplyGlobalSettings
    \/ ClearAllData
    \/ SaveCustomerForm
    \/ SaveTableChanges
    \/ ExportPackingList

SpecDirty == Init /\ [][NextDirty]_vars

\* a session that generates invoices
NextInvoices ==
    \/ UploadInvoices
    \/ Rerun
    \/ ClearAllData
    \/ GenerateAllInvoices
    \/ GenerateSelectedInvoice

SpecInvoices == Init /\ [][NextInvoices]_vars

----------------------------------------------------------------------------
(* Vocabulary of the properties *)

Records == { consolidated_df[k] : k \in DOMAIN consolidated_df }

\* the table is the result of a consolidation (no save is waiting for its rerun)
Consolidated == consolidated_df # <<>> /\ widgets.op = "none"

AfterFormSave == consolidated_df # <<>> /\ widgets.op = "form"

AfterTableSave == consolidated_df # <<>> /\ widgets.op = "table"

\* positions of the customer's rows in the uploaded sheet
RowsAt(c) == { j \in DOMAIN raw_df : raw_df[j].MARK = c }

\* position in the sheet of the customer's i-th row
NthRowAt(c, i) == CHOOSE j \in RowsAt(c) : Cardinality({ h \in RowsAt(c) : h <= j }) = i

\* the customer's first row
FirstRowOf(c) == raw_df[NthRowAt(c, 1)]

\* the rates configured for a customer: the global defaults once applied, else
\* those of the customer's first row (a zero weight rate of the sheet reads 1.0)
ConfiguredPer(c) ==
    IF global_defaults.applied THEN global_defaults.PER_CHARGES ELSE FirstRowOf(c).PER_CHARGES

ConfiguredParking(c) ==
    IF global_defaults.applied THEN global_defaults.PARKING_CHARGES
    ELSE FirstRowOf(c).PARKING_CHARGES

ConfiguredWr(c) ==
    IF global_defaults.applied THEN global_defaults.WEIGHT_RATE
    ELSE IF FirstRowOf(c).Weight_Rate = 0 THEN Scale ELSE FirstRowOf(c).Weight_Rate

\* the weight rate the last operation applied to a customer
AppliedWr(c) ==
    IF widgets.op # "none" /\ widgets.customer = c THEN widgets.wr ELSE ConfiguredWr(c)

\* numeric maximum of the measured volume and weight / rate of the customer's i-th row
EffectiveCbm(c, i, rate) ==
    LET row == raw_df[NthRowAt(c, i)]
        weight_cbm == Div(row.WEIGHT, rate)
    IN IF weight_cbm = NAN THEN row.MEAS
       ELSE IF weight_cbm >= row.MEAS THEN weight_cbm ELSE row.MEAS

RECURSIVE SumTo(_, _)
\* f[1] + ... + f[n]
SumTo(f, n) == IF n = 0 THEN 0 ELSE Add(SumTo(f, n - 1), f[n])

NRows(c) == Cardinality(RowsAt(c))

TotalEffectiveCbm(c, rate) ==
    SumTo([i \in 1..NRows(c) |-> EffectiveCbm(c, i, rate)], NRows(c))

----------------------------------------------------------------------------
(* C1 *)

\* C1: every record whose total CBM is below 0.05 has calculated charges 10.00,
\* rate 10.00 and the flat-rate flag set, after the consolidation, after a
\* per-customer form save and after a table-editor save.
C1_FlatRateBelowThreshold ==
    \A r \in Records :
        Less(r.NUM_TOTAL_CBM.v, FlatThreshold) =>
            /\ r.CALCULATED_CHARGES.v = FlatCharge
            /\ r.RATE = Str2(FlatCharge)
            /\ r.FLAT_RATE_APPLIED = "Yes"

\* C1 restricted to the consolidation and the table-editor save
FlatRateOutsideFormSave == AfterFormSave \/ C1_FlatRateBelowThreshold

----------------------------------------------------------------------------
(* C2 *)

\* the record of a customer in the result of the consolidation of the current file
FreshRecord(c) ==
    LET fresh == MainConsolidate(uploaded_file, global_defaults)
    IN fresh[CHOOSE k \in DOMAIN fresh : fresh[k].MARK = c]

\* the per-charge rate the last operation applied to a customer: the configured
\* rate in the consolidation; in the table editor the value of the PER CHARGES
\* cell of the customer's row (the operator's text, or the rate the record showed)
AppliedPer(c) ==
    IF widgets.op = "none" THEN ConfiguredPer(c)
    ELSE IF widgets.customer = c THEN widgets.per
    ELSE ToFloat(FreshRecord(c).PER_CHARGES)

\* the weight rate the table editor applies to a row it was not edited in
TableWr(c) ==
    IF widgets.customer = c THEN widgets.wr ELSE ToFloat(FreshRecord(c).Weight_Rate)

OpWr(c) == IF widgets.op = "table" THEN TableWr(c) ELSE AppliedWr(c)

\* sum over the customer's rows of effective CBM * rate, not rounded
UnroundedCharges(c, wr, per) ==
    SumTo([i \in 1..NRows(c) |->
             LET p == Mul(EffectiveCbm(c, i, wr), per) IN IF p = NAN THEN 0 ELSE p],
          NRows(c))

ExampleSheet ==
    << Row("ABC", "R1", 2000, 10, 20000, 100000, 50000, 15000),
       Row("ABC", "R2", 3000, 20,  5000, 100000, 50000, 15000) >>

----------------------------------------------------------------------------
(* C3 *)

\* C3: in every state of the table, every record's total charges equal its
\* calculated charges plus its parking charge (the three stored values).
C3_TotalIsCalculatedPlusParking ==
    \A r \in Records :
        r.TOTAL_CHARGES_SUM.v =
            Add(r.CALCULATED_CHARGES.v, ToFloat(r.PARKING_CHARGES))

\* C3 restricted to the consolidation and the table-editor save
TotalOutsideFormSave == AfterFormSave \/ C3_TotalIsCalculatedPlusParking

----------------------------------------------------------------------------
(* C4 *)

----------------------------------------------------------------------------
(* C5 *)

\* C5: no record ever holds an infinite or NaN total CBM, CBM line or charge
\* (a zero weight rate is refused instead of being divided by).
C5_NoInfiniteOrNaN ==
    \A r \in Records :
        /\ IsFinite(r.NUM_TOTAL_CBM.v)
        /\ IsFinite(r.CALCULATED_CHARGES.v)
        /\ IsFinite(r.TOTAL_CHARGES_SUM.v)
        /\ \A i \in DOMAIN r.CBM : IsFinite(r.CBM[i].v)

\* C5 restricted to the consolidation and the per-customer form save
FiniteOutsideTableSave == AfterTableSave \/ C5_NoInfiniteOrNaN

----------------------------------------------------------------------------
(* C6 *)

TableMarks == [k \in DOMAIN consolidated_df |-> consolidated_df[k].MARK]

\* C6: the table has one record per distinct mark, in the order in which the
\* marks first appear in the rows, each with its rows in input order.
C6_FirstSeenOrder ==
    consolidated_df # <<>> =>
        /\ TableMarks = UniqueMarks(raw_df)
        /\ \A r \in Records :
              r.RECEIPT_NO = [i \in 1..NRows(r.MARK) |-> raw_df[NthRowAt(r.MARK, i)].RECEIPT_NO]

\* what holds instead: one record per distinct mark, in sorted mark order
OneRecordPerMarkSorted ==
    consolidated_df # <<>> =>
        /\ { TableMarks[k] : k \in DOMAIN TableMarks } = MarksOf(raw_df)
        /\ Len(TableMarks) = Cardinality(MarksOf(raw_df))
        /\ TableMarks = SortedMarks(raw_df)

----------------------------------------------------------------------------
(* C7 *)

\* the "CBM" column main gives a row: its own Weight Rate, a zero read as 1.0
OwnCbm(row) ==
    LET weight_cbm == Div(row.WEIGHT, IF row.Weight_Rate = 0 THEN Scale ELSE row.Weight_Rate)
    IN IF weight_cbm >= row.MEAS THEN weight_cbm ELSE row.MEAS

----------------------------------------------------------------------------
(* C8 *)

\* C8: whenever a script run has completed, the table is the consolidation of
\* the uploaded rows under the current defaults, whatever ran before in the
\* session (consolidations, saves, clears): consolidating the same rows with
\* the same configuration again gives the same records.
C8_ConsolidationIdempotent ==
    (pc = "idle" /\ uploaded_file # <<>>) =>
        /\ raw_df = uploaded_file
        /\ consolidated_df = MainConsolidate(uploaded_file, global_defaults)

\* a completed run over several customers with the global defaults applied
C8_Witness ==
    /\ pc = "idle"
    /\ global_defaults.applied
    /\ Len(consolidated_df) >= 2

----------------------------------------------------------------------------
(* C9, C10: the packing list *)

ItemIdx == { j \in DOMAIN ws : ws[j].kind = "item" }

\* the customer an item row belongs to: the mark of the last first-row at or above it
OwnerOf(j) ==
    LET firsts == { h \in ItemIdx : h <= j /\ ws[h].MARK # "" }
    IN ws[CHOOSE h \in firsts : \A g \in firsts : g <= h].MARK

ItemsOf(c) == { j \in ItemIdx : OwnerOf(j) = c }

ListedCustomers == { ws[j].MARK : j \in { h \in ItemIdx : ws[h].MARK # "" } }

SubtotalIdx(c) == { j \in DOMAIN ws : ws[j].kind = "subtotal" /\ ws[j].RECEIPT_NO = c }

GrandIdx == { j \in DOMAIN ws : ws[j].kind = "grand" }

RECURSIVE SumCells(_, _)
\* sum of the numeric values of a column over a set of rows
SumCells(rows, col) ==
    IF rows = {} THEN 0
    ELSE LET j == CHOOSE h \in rows : TRUE
         IN Add(SafeFloat(ws[j][col]), SumCells(rows \ {j}, col))

\* a customer's subtotal (several rows) or single-row value, before formatting
CustomerValue(c, col) == SumCells(ItemsOf(c), col)

RECURSIVE SumCustomers(_, _)
SumCustomers(cs, col) ==
    IF cs = {} THEN 0
    ELSE LET c == CHOOSE d \in cs : TRUE
         IN Add(CustomerValue(c, col), SumCustomers(cs \ {c}, col))

\* the text of a total in a column: two decimals, three for the CBM columns
TotalText(col, x) == IF col \in {"MEAS_CBM", "CBM"} THEN Str3(x) ELSE Str2(x)

\* C9: the packing list has exactly one grand-total row, the last one, and in
\* every numeric column it shows the sum over all customers of the customer's
\* subtotal (which the subtotal row of a customer with several rows shows) or
\* single-row value.
C9_GrandTotalIsSumOfCustomers ==
    ws # <<>> =>
        /\ GrandIdx = {Len(ws)}
        /\ \A col \in NUMERIC_TOTAL_COLS :
              ws[Len(ws)][col] = TotalText(col, SumCustomers(ListedCustomers, col))
        /\ \A c \in ListedCustomers : \A j \in SubtotalIdx(c) :
              \A col \in NUMERIC_TOTAL_COLS :
                  ws[j][col] = TotalText(col, CustomerValue(c, col))

\* a packing list with a customer that has a subtotal row and one that has none
C9_Witness ==
    /\ ws # <<>>
    /\ \E c \in ListedCustomers : SubtotalIdx(c) # {}
    /\ \E c \in ListedCustomers : SubtotalIdx(c) = {} /\ Cardinality(ItemsOf(c)) = 1

\* placement of the subtotal rows: one right after the item rows of a customer
\* with several rows, none for a single-row customer, who is still listed
SubtotalPlacement ==
    ws # <<>> =>
        \A r \in Records :
            LET c == r.MARK
                n == Len(r.RECEIPT_NO)
            IN /\ c \in ListedCustomers
               /\ Cardinality(ItemsOf(c)) = n
               /\ Cardinality(SubtotalIdx(c)) = IF n > 1 THEN 1 ELSE 0
               /\ \A j \in SubtotalIdx(c) :
                     /\ j - 1 \in ItemsOf(c)
                     /\ \A h \in ItemsOf(c) : h < j

\* C10: a customer's item rows are followed by one subtotal row exactly when
\* the customer has more than one row, and that row carries the total quantity,
\* total CBM and total charges recorded in the customer's record.
C10_SubtotalCarriesRecordTotals ==
    /\ SubtotalPlacement
    /\ ws # <<>> =>
        \A r \in Records : \A j \in SubtotalIdx(r.MARK) :
            /\ ws[j].QTY = r.TOTAL_QTY
            /\ ws[j].TOTAL_CHARGES = r.TOTAL_CHARGES
            /\ ws[j].CBM = Str3(r.NUM_TOTAL_CBM.v)

\* what holds of the subtotal row: quantity and charges of the record
SubtotalQtyAndCharges ==
    /\ SubtotalPlacement
    /\ ws # <<>> =>
        \A r \in Records : \A j \in SubtotalIdx(r.MARK) :
            /\ ws[j].QTY = r.TOTAL_QTY
            /\ ws[j].TOTAL_CHARGES = r.TOTAL_CHARGES

----------------------------------------------------------------------------
(* C11: the item rows of the packing list *)

\* position in the packing list of the i-th item row of a customer
NthItemOf(c, i) ==
    CHOOSE j \in ItemsOf(c) : Cardinality({ h \in ItemsOf(c) : h <= j }) = i

----------------------------------------------------------------------------
(* C12: rows with a missing or non-numeric quantity, weight or volume *)

\* the value a missing or non-numeric cell counts for
Zeroed(x) == IF x = NAN \/ x = TEXT THEN 0 ELSE x

\* the totals of a customer when every missing or non-numeric cell counts zero
ZeroedQty(c) == SumTo([i \in 1..NRows(c) |-> Zeroed(raw_df[NthRowAt(c, i)].QTY)], NRows(c))

ZeroedCbm(c, rate) ==
    SumTo([i \in 1..NRows(c) |->
              LET row == raw_df[NthRowAt(c, i)]
              IN RowMax(Zeroed(row.MEAS), Div(Zeroed(row.WEIGHT), rate))], NRows(c))

\* the line of a cell in a multi-line field: empty when the cell is missing or
\* not a number
LineIsBlankOrValue(line, x) ==
    IF x = NAN \/ x = TEXT THEN line = EmptyCell ELSE ToFloat(line) = x

\* C12: after a run over an uploaded sheet every customer of the sheet has a
\* record (a missing or non-numeric quantity, weight or volume aborts neither
\* its group nor the batch), the row counts zero in total quantity and total
\* CBM, and its line in the multi-line field is the empty string.
C12_MissingOrNonNumericCountsZero ==
    (pc = "idle" /\ uploaded_file # <<>>) =>
        /\ { r.MARK : r \in Records } = MarksOf(uploaded_file)
        /\ \A r \in Records :
              LET c == r.MARK
              IN /\ r.TOTAL_QTY = Str2(ZeroedQty(c))
                 /\ r.NUM_TOTAL_CBM = Flt(ZeroedCbm(c, AppliedWr(c)))
                 /\ \A i \in 1..NRows(c) :
                      LET row == raw_df[NthRowAt(c, i)]
                      IN /\ LineIsBlankOrValue(r.QTY[i], row.QTY)
                         /\ LineIsBlankOrValue(r.WEIGHT_KG[i], row.WEIGHT)

\* what holds: a run over a sheet whose cells are numbers or missing gives every
\* customer a record in which the missing cells count zero in both totals
MissingCellsCountZero ==
    (pc = "idle" /\ uploaded_file # <<>> /\ ~Raises(uploaded_file)) =>
        /\ { r.MARK : r \in Records } = MarksOf(uploaded_file)
        /\ \A r \in Records :
              /\ r.TOTAL_QTY = Str2(ZeroedQty(r.MARK))
              /\ r.NUM_TOTAL_CBM = Flt(ZeroedCbm(r.MARK, AppliedWr(r.MARK)))

\* what the run leaves behind when a cell is not a number: the rows of the new
\* file next to the table of the run before (none on a first upload)
AbortedRunKeepsOldTable ==
    [][(pc = "idle" /\ pc' = "idle" /\ uploaded_file' # <<>> /\ Raises(uploaded_file'))
          => (raw_df' = uploaded_file' /\ consolidated_df' = consolidated_df)]_vars

----------------------------------------------------------------------------
(* C13: the report of a bulk run *)

Attempts == { attempts.list[i] : i \in DOMAIN attempts.list }

Messages == { report.messages[i] : i \in DOMAIN report.messages }

\* the run shows a message of the kind that names the customer
NamedInReport(customer, kind) ==
    \E m \in Messages : m.kind = kind /\ m.customer = customer

\* a success message that names no customer
AggregateSuccess == \E m \in Messages : m.kind = "success" /\ m.customer = ""

\* C13: at the end of a "Generate All Invoices" run every customer that is not
\* excluded has been processed, whatever failed before it; the report names
\* each customer that succeeded and each that failed; and a run in which a
\* customer failed does not end with one success message for the whole run.
C13_BulkReportNamesCustomers ==
    attempts.op = "all" =>
        /\ [i \in DOMAIN attempts.list |-> attempts.list[i].customer] =
               [i \in DOMAIN IncludedDf(consolidated_df, attempts.excluded) |->
                   IncludedDf(consolidated_df, attempts.excluded)[i].MARK]
        /\ \A a \in Attempts :
              NamedInReport(a.customer, IF a.outcome = "ok" THEN "success" ELSE "error")
        /\ (\E a \in Attempts : a.outcome # "ok") => ~AggregateSuccess

\* what holds: the loop goes on after a failure, every customer that is not
\* excluded is processed, in the order of the table, with consecutive numbers
BulkRunProcessesEveryCustomer ==
    attempts.op = "all" =>
        /\ [i \in DOMAIN attempts.list |-> attempts.list[i].customer] =
               [i \in DOMAIN IncludedDf(consolidated_df, attempts.excluded) |->
                   IncludedDf(consolidated_df, attempts.excluded)[i].MARK]
        /\ \A i \in DOMAIN attempts.list : attempts.list[i].number = i

\* what the bulk run shows instead: the one success message, always, and for a
\* failure at most an error that names no customer
BulkRunAlwaysReportsSuccess ==
    attempts.op = "all" =>
        /\ AggregateSuccess
        /\ \A m \in Messages : m.customer = ""

----------------------------------------------------------------------------
(* C14: the notification log *)

FileName(f) == [number |-> f.number, customer |-> f.customer]

LogEntriesOf(name) ==
    { i \in DOMAIN output_folder.log : output_folder.log[i].File = name }

\* C14: after any sequence of bulk runs and single-invoice generations the
\* notification log has exactly one entry for each invoice document that was
\* generated successfully (no document without an entry).
C14_OneLogEntryPerDocument ==
    \A f \in output_folder.pdfs :
        f.valid => Cardinality(LogEntriesOf(FileName(f))) = 1

\* what holds: right after a bulk run the log has one entry for each invoice
\* the run generated, in the order of the run, and nothing else
BulkRunLogsItsDocuments ==
    attempts.op = "all" =>
        /\ \A a \in Attempts :
              Cardinality(LogEntriesOf([number |-> a.number, customer |-> a.customer])) =
                  IF a.outcome = "ok" THEN 1 ELSE 0
        /\ Len(output_folder.log) = Cardinality({ a \in Attempts : a.outcome = "ok" })

\* the entries are kept by an append and dropped by the next bulk run, which
\* removes the folder with the log in it
LogKeptUntilBulkRun ==
    [][(attempts'.op = "single")
          => output_folder'.log = output_folder.log]_vars

----------------------------------------------------------------------------
(* C15, C16: the placeholder mapping *)

\* a string with exactly two decimals
TwoDecimals(c) == c.t = "s2" /\ IsFinite(c.v)

\* the numeric and currency fields of the mapping
NumericKeys ==
    {"PER_CHARGES", "PARKING_CHARGES", "TOTAL_CHARGES", "RATE", "CALCULATED_CHARGES",
     "TOTAL_QTY", "TOTAL_CBM"}

\* C15: in the placeholder mapping built for a record, per charges, parking
\* charges, total charges, rate, calculated charges, total quantity and total
\* CBM are strings with exactly two decimals, for every record made by the
\* consolidation or by a saved edit.
C15_TwoDecimalsInMapping ==
    \A r \in Records : \A n \in InvoiceNumbers : \A date \in Dates :
        \A key \in NumericKeys : TwoDecimals(FormattedData(r, n, date)[key])

\* what holds: the same for the records of the consolidation and of a form save
TwoDecimalsOutsideTableSave == AfterTableSave \/ C15_TwoDecimalsInMapping

\* the placeholders a template may use
RecognizedKeys ==
    {"RECEIPT_NO", "QTY", "DESCRIPTION", "CBM", "WEIGHT_KG", "PARKING_CHARGES",
     "PER_CHARGES", "RATE", "Weight_Rate", "TOTAL_CHARGES", "MARK", "CONTACT_NUMBER",
     "CARGO_NUMBER", "TRACKING_NUMBER", "TERMS", "TOTAL_QTY", "TOTAL_CBM",
     "TOTAL_CHARGES_SUM", "FLAT_RATE_APPLIED", "CALCULATED_CHARGES", "NUM_TOTAL_CBM",
     "DATE", "INVOICE_NUMBER"}

HasNoValue(cell) == cell = NoValue \/ cell = NoColumn

\* C16: the placeholder mapping built for an invoice has every recognized key;
\* tracking number, terms and cargo number are the empty string when the
\* customer's row has no value for them; DATE and INVOICE NUMBER are the date of
\* the run and the number the caller passed.
C16_MappingHasEveryKey ==
    \A a \in Attempts :
        LET m == a.formatted_data
            first_row == FirstRowOf(a.customer)
        IN /\ RecognizedKeys \subseteq DOMAIN m
           /\ HasNoValue(first_row.TRACKING_NUMBER) => m.TRACKING_NUMBER = ""
           /\ HasNoValue(first_row.TERMS) => m.TERMS = ""
           /\ HasNoValue(first_row.CARGO_NUMBER) => m.CARGO_NUMBER = ""
           /\ m.DATE \in Dates
           /\ m.INVOICE_NUMBER = a.number

\* what holds: every key is there, the columns the sheet does not have give the
\* empty string, and an empty cell of a column the sheet has gives "nan"
EmptyCellGivesNan ==
    \A a \in Attempts :
        LET m == a.formatted_data
            first_row == FirstRowOf(a.customer)
        IN /\ RecognizedKeys \subseteq DOMAIN m
           /\ first_row.TERMS = NoColumn => m.TERMS = ""
           /\ first_row.CARGO_NUMBER = NoColumn => m.CARGO_NUMBER = ""
           /\ first_row.TRACKING_NUMBER = NoValue => m.TRACKING_NUMBER = "nan"
           /\ m.DATE \in Dates
           /\ m.INVOICE_NUMBER = a.number

----------------------------------------------------------------------------
(* C17: the CBM lines and the total CBM *)

\* C17: in a consolidated record line i of the CBM lines is the effective CBM
\* of the customer's i-th row under the weight rate the total CBM was computed
\* with, so the lines add up to the total CBM; also under the global defaults
\* and when the rows of a customer carry different weight rates.
C17_CbmLinesUseTotalRate ==
    Consolidated =>
        \A r \in Records :
            LET c == r.MARK
                n == NRows(c)
            IN /\ \A i \in 1..n : ToFloat(r.CBM[i]) = EffectiveCbm(c, i, AppliedWr(c))
               /\ SumTo([i \in 1..n |-> ToFloat(r.CBM[i])], n) = ToFloat(r.NUM_TOTAL_CBM)

\* what holds: the lines agree with the total for a customer whose rows all
\* carry the weight rate of the first one, as long as no global default is applied
CbmLinesAgreeUnderOneRate ==
    (Consolidated /\ ~global_defaults.applied) =>
        \A r \in Records :
            LET c == r.MARK
                n == NRows(c)
            IN (\A i \in 1..n : raw_df[NthRowAt(c, i)].Weight_Rate = FirstRowOf(c).Weight_Rate)
                  => SumTo([i \in 1..n |-> ToFloat(r.CBM[i])], n) = ToFloat(r.NUM_TOTAL_CBM)

----------------------------------------------------------------------------
(* C18: a saved edit against a fresh consolidation *)

\* the record of the customer the last save edited
EditedRecord == CHOOSE r \in Records : r.MARK = widgets.customer

\* the customer's raw rows carrying the rates of the edit
RowsWithEditedRates ==
    [i \in 1..NRows(widgets.customer) |->
        [raw_df[NthRowAt(widgets.customer, i)] EXCEPT
            !.PER_CHARGES = widgets.per,
            !.PARKING_CHARGES = widgets.parking,
            !.Weight_Rate = widgets.wr]]

\* what a run over those rows consolidates
FreshWithEditedRates ==
    ConsolidateGroup(widgets.customer, MainDf(RowsWithEditedRates), NoDefaults)

Values(lines) == [i \in DOMAIN lines |-> ToFloat(lines[i])]

\* two records agree, value by value, on total CBM, CBM lines, rate applied,
\* calculated charges, parking charges, total charges and the flat-rate flag
SameBilling(r, f) ==
    /\ ToFloat(r.NUM_TOTAL_CBM) = ToFloat(f.NUM_TOTAL_CBM)
    /\ r.TOTAL_CBM = f.TOTAL_CBM
    /\ Values(r.CBM) = Values(f.CBM)
    /\ ToFloat(r.RATE) = ToFloat(f.RATE)
    /\ ToFloat(r.CALCULATED_CHARGES) = ToFloat(f.CALCULATED_CHARGES)
    /\ ToFloat(r.PARKING_CHARGES) = ToFloat(f.PARKING_CHARGES)
    /\ ToFloat(r.TOTAL_CHARGES_SUM) = ToFloat(f.TOTAL_CHARGES_SUM)
    /\ r.TOTAL_CHARGES = f.TOTAL_CHARGES
    /\ r.FLAT_RATE_APPLIED = f.FLAT_RATE_APPLIED

\* C18: after a rate edit is saved, in the form or in the table editor, the
\* stored record of the customer has the total CBM, CBM lines, rate applied,
\* calculated charges, parking charges, total charges and flat-rate flag that a
\* fresh consolidation of the customer's raw rows with the edited rates gives.
C18_SavedEditIsFreshConsolidation ==
    (AfterFormSave \/ AfterTableSave) => SameBilling(EditedRecord, FreshWithEditedRates)

\* what holds: the table editor's record agrees with the fresh consolidation
\* unless the weight-rate cell is zero
TableSaveIsFreshConsolidation ==
    (AfterTableSave /\ widgets.wr # 0) => SameBilling(EditedRecord, FreshWithEditedRates)

\* what holds: the form's record agrees in total CBM, rate applied, parking
\* charges, total charges and flag; calculated charges and CBM lines are those
\* of before the edit
FormSaveKeepsStaleFields ==
    AfterFormSave =>
        LET r == EditedRecord
            f == FreshWithEditedRates
            old == FreshRecord(widgets.customer)
        IN /\ ToFloat(r.NUM_TOTAL_CBM) = ToFloat(f.NUM_TOTAL_CBM)
           /\ r.TOTAL_CBM = f.TOTAL_CBM
           /\ ToFloat(r.RATE) = ToFloat(f.RATE)
           /\ ToFloat(r.PARKING_CHARGES) = ToFloat(f.PARKING_CHARGES)
           /\ r.FLAT_RATE_APPLIED = f.FLAT_RATE_APPLIED
           /\ r.CALCULATED_CHARGES = old.CALCULATED_CHARGES
           /\ r.CBM = old.CBM

----------------------------------------------------------------------------
(* C19: a saved override and the rerun *)

\* the record the next state holds for the customer of the last save
EditedRecordAfterRerun ==
    CHOOSE r \in { consolidated_df'[k] : k \in DOMAIN consolidated_df' } :
        r.MARK = widgets.customer

\* the script run that follows a save
RerunAfterSave == pc = "rerun" /\ widgets.op # "none" /\ pc' = "idle"

\* C19: after a save (form or table editor) followed by the page rerun, the
\* record of the customer still carries the saved per-charge rate (or the flat
\* rate), parking charge and weight rate.
C19_SavedOverrideSurvivesRerun ==
    [][RerunAfterSave =>
          /\ \E k \in DOMAIN consolidated_df' : consolidated_df'[k].MARK = widgets.customer
          /\ ToFloat(EditedRecordAfterRerun.PARKING_CHARGES) = widgets.parking
          /\ ToFloat(EditedRecordAfterRerun.Weight_Rate) = widgets.wr
          /\ \/ ToFloat(EditedRecordAfterRerun.PER_CHARGES) = widgets.per
             \/ EditedRecordAfterRerun.FLAT_RATE_APPLIED = "Yes"]_vars

\* what holds: the run that follows a save puts the consolidation of the
\* uploaded rows under the global defaults in the place of the saved table
RerunAfterSaveReconsolidates ==
    [][RerunAfterSave =>
          consolidated_df' = MainConsolidate(uploaded_file, global_defaults)]_vars

----------------------------------------------------------------------------
(* C20: the raw rows *)

\* C20: the raw rows kept for the session are the rows of the uploaded sheet,
\* whatever ran since the upload: consolidation, form save, table-editor save,
\* packing-list export.
C20_RawRowsUnchanged ==
    uploaded_file # <<>> => raw_df = uploaded_file

\* a packing list exported after a form save that changed the weight rate of a
\* customer whose sheet rows carry another one
C20_Witness ==
    /\ AfterFormSave
    /\ ws # <<>>
    /\ widgets.wr # FirstRowOf(widgets.customer).Weight_Rate
    /\ widgets.parking # FirstRowOf(widgets.customer).PARKING_CHARGES

----------------------------------------------------------------------------
(* C21: the per-charge rate of a customer that was flat-rated *)

\* the last save is a table-editor save that changed only the weight-rate cell
\* (to a positive rate) of a customer whose record was flat-rated, and the
\* record no longer is
FlatRateLiftedByWeightRate ==
    /\ AfterTableSave
    /\ FreshRecord(widgets.customer).FLAT_RATE_APPLIED = "Yes"
    /\ widgets.per = ToFloat(FreshRecord(widgets.customer).PER_CHARGES)
    /\ widgets.parking = ToFloat(FreshRecord(widgets.customer).PARKING_CHARGES)
    /\ widgets.wr # ToFloat(FreshRecord(widgets.customer).Weight_Rate)
    /\ widgets.wr > 0
    /\ EditedRecord.FLAT_RATE_APPLIED = "No"

\* C21: when a table-editor save changes only the weight rate of a flat-rated
\* customer so that the total CBM is 0.05 or more, the charges are computed
\* with the per-charge rate configured for the customer, not with the 10.00
\* the record showed as rate while it was flat-rated.
C21_ConfiguredRateSurvivesFlatRate ==
    FlatRateLiftedByWeightRate =>
        /\ EditedRecord.RATE = Str2(ConfiguredPer(widgets.customer))
        /\ EditedRecord.CALCULATED_CHARGES =
               Flt(UnroundedCharges(widgets.customer, widgets.wr,
                                    ConfiguredPer(widgets.customer)))

\* what holds: the charges are computed with the flat value the PER CHARGES
\* cell showed
FlatValueTakenAsRate ==
    FlatRateLiftedByWeightRate =>
        /\ EditedRecord.RATE = Str2(FlatCharge)
        /\ EditedRecord.CALCULATED_CHARGES =
               Flt(UnroundedCharges(widgets.customer, widgets.wr, FlatCharge))

----------------------------------------------------------------------------
(* C22: the archive of a bulk run *)

\* the attempt of the last run that wrote a file under the name
AttemptsNamed(name) ==
    { a \in Attempts : a.number = name.number /\ a.customer = name.customer }

\* C22: every PDF in the archive of a bulk run passed the validity check and
\* was returned as generated; a converted file that fails the check is not
\* left in the output folder.
C22_ZipHoldsValidatedPdfs ==
    attempts.op = "all" =>
        /\ output_folder.zip.exists
        /\ \A name \in output_folder.zip.members :
              \E a \in AttemptsNamed(name) : a.outcome = "ok"
        /\ \A f \in output_folder.pdfs : f.valid

\* what holds: the archive has every file of the folder that ends in .pdf, the
\* ones that failed the validity check included
ZipHoldsEveryPdfOfFolder ==
    attempts.op = "all" =>
        /\ output_folder.zip.exists
        /\ output_folder.zip.members = { FileName(f) : f \in output_folder.pdfs }
        /\ \A a \in Attempts :
              (a.outcome = "invalid_pdf") =>
                  [number |-> a.number, customer |-> a.customer] \in output_folder.zip.members

----------------------------------------------------------------------------
(* C23: invoice numbers *)

\* the marks of the records a bulk run includes, in table order
IncludedMarks ==
    [i \in DOMAIN IncludedDf(consolidated_df, attempts.excluded) |->
        IncludedDf(consolidated_df, attempts.excluded)[i].MARK]

\* a bulk run gives the i-th included customer, counted from 0, the number
\* start + i, and leaves no document of an excluded customer
BulkRunNumbering ==
    attempts.op = "all" =>
        /\ \E start_num \in StartNumbers :
              \A i \in DOMAIN attempts.list :
                  /\ attempts.list[i].customer = IncludedMarks[i]
                  /\ attempts.list[i].number = start_num + (i - 1)
        /\ Len(attempts.list) = Len(IncludedMarks)
        /\ \A f \in output_folder.pdfs : f.customer \notin attempts.excluded

\* no two invoice documents of the folder carry the same number
NumbersIdentifyDocuments ==
    \A f, g \in output_folder.pdfs :
        (f.valid /\ g.valid /\ f.number = g.number) => f = g

\* C23: in a bulk run the i-th included customer, in table order, gets the
\* number start + i and an excluded customer gets no document; after any
\* sequence of bulk and single-invoice generations no two invoice documents of
\* the output folder carry the same invoice number.
C23_InvoiceNumbersUnique ==
    BulkRunNumbering /\ NumbersIdentifyDocuments

\* what holds: the documents of one bulk run have distinct numbers
BulkRunNumbersDistinct ==
    attempts.op = "all" => NumbersIdentifyDocuments

====
